---- MODULE Spec2Model ----
(***************************************************************************)
(* Madrid street-furniture map viewer: the data loader, the filter engine  *)
(* and the statistics aggregator of three iterations of the application    *)
(* script: app.js ("app"), unnamed/part_001 ("p1"), unnamed/part_002       *)
(* ("p2").  One behaviour runs one of the three scripts (variable          *)
(* variant).                                                               *)
(*                                                                         *)
(* The mapping library is an external collaborator.  It is modelled by the *)
(* interface the scripts use: the marker store keeps the committed markers *)
(* in commit order, eachLayer visits them in that order, a marker has      *)
(* options.opacity (1 when created), setOpacity/setStyle store the         *)
(* opacity, and hasLayer tells the markers apart.  app.js and part_001     *)
(* read marker.feature, and part_002 reads the _leaflet_id of a marker it  *)
(* has just created: the scripts assign neither and the marker's           *)
(* constructor is given neither, so whether a marker has them is up to the *)
(* library (variable library).                                             *)
(*                                                                         *)
(* Coordinates are fixed-point numbers in hundredths of a degree           *)
(* (-3.70 is -370).                                                        *)
(***************************************************************************)
EXTENDS Integers, Sequences, FiniteSets, TLC

VARIABLES
    variant,        \* which script runs: "app", "p1" or "p2"
    library,        \* what a marker of the mapping library exposes, see Libraries
    csv,            \* the three files: [pattern, n], see FileRows
    pc,             \* position of the loader (the await it is suspended at)
    ds,             \* index of the dataset of the current loop iteration
    features,       \* loadData: const features (accepted rows of the dataset)
    processed,      \* addFeaturesInBatches: processed / addMarkersInBatches: i
    allData,        \* app.js loadData: let allData
    loadingState,   \* let loadingState = { total, loaded, currentDataset }
    markersCluster, \* the marker store, in commit order
    commits,        \* history: the argument of every markersCluster.addLayers
    log,            \* history: fetches, commits, progress reports, errors ...
    boxes,          \* DOM: the values that have a checkbox, per facet
    checked,        \* DOM: the values whose checkbox is checked, per facet
    activeFilters,  \* let activeFilters = { categories, districts, neighborhoods }
    rafQueue,       \* pending requestAnimationFrame(processLayer) callbacks
    stats,          \* the snapshot last handed to updateStatsDisplay
    statsRuns,      \* history: the statistics passes, see StatsRun
    changed,        \* history: the store or an opacity changed since the last pass
    overlayHidden,  \* '.loading-overlay' has class 'hidden'
    toggles,        \* checkbox changes the user may still make
    madridDistricts,\* part_002: the district names of the loaded GeoJSON
    markersCache,   \* part_002: const markersCache, in insertion order
    rowCounts,      \* part_002 loadData: totalRows, processedRows, invalidRows
    districtInput,  \* normalizeDistrict on its own: the argument name
    districtResult  \* normalizeDistrict on its own: the value returned

vars == <<variant, library, csv, pc, ds, features, processed, allData, loadingState,
          markersCluster, commits, log, boxes, checked, activeFilters,
          rafQueue, stats, statsRuns, changed, overlayHidden, toggles,
          madridDistricts, markersCache, rowCounts, districtInput,
          districtResult>>

\* the state that only part_002 uses, and the state it does not use
p2Vars == <<madridDistricts, markersCache, rowCounts>>
notP2Vars == <<features, processed, allData, loadingState, activeFilters, rafQueue>>

(***************************************************************************)
(* Program constants                                                       *)
(***************************************************************************)
BATCH_SIZE == 500
REPORT_EVERY == 100
VISIBILITY_CHUNK == 100

DatasetNames == <<"Traffic Lights", "Streetlights", "Acoustic Signals">>
DatasetFiles == <<"trafic.csv", "lamps.csv", "acustic.csv">>

(***************************************************************************)
(* Bounds of the model                                                     *)
(***************************************************************************)
MaxRows == 2        \* rows over the three files of a small load
MaxToggles == 1     \* checkbox changes after a small load
MaxBulkToggles == 1 \* checkbox changes after a bulk load
MaxChanges == 2     \* checkbox changes of a run that makes several
MaxFailures == 1    \* retrievals of a run that do not settle OK

(***************************************************************************)
(* JavaScript values                                                       *)
(***************************************************************************)
Null == "<null>"                       \* null / undefined / empty CSV field
Falsy(v) == v \in {Null, ""}           \* !v for a string-or-null value
OrElse(v, d) == IF Falsy(v) THEN d ELSE v      \* v || d
ANumber == "<number>"                  \* a field that dynamicTyping made a number
IsString(v) == v \notin {Null, ANumber}        \* typeof v === 'string'

\* a raw coordinate field: a number (dynamicTyping: true), a string (a
\* sequence of characters) or nothing
Num(v) == [t |-> "num", v |-> v, s |-> << >>]
Str(s) == [t |-> "str", v |-> 0, s |-> s]
NoValue == [t |-> "null", v |-> 0, s |-> << >>]
NaN == [nan |-> TRUE, v |-> 0]
Float(v) == [nan |-> FALSE, v |-> v]

Min(a, b) == IF a < b THEN a ELSE b
Range(s) == {s[i] : i \in 1..Len(s)}

DigitOf == ("0" :> 0) @@ ("1" :> 1) @@ ("2" :> 2) @@ ("3" :> 3) @@ ("4" :> 4) @@
           ("5" :> 5) @@ ("6" :> 6) @@ ("7" :> 7) @@ ("8" :> 8) @@ ("9" :> 9)
IsSpace(c) == c \in {" ", "\t"}

RECURSIVE TrimLeft(_)
TrimLeft(s) == IF s # << >> /\ IsSpace(Head(s)) THEN TrimLeft(Tail(s)) ELSE s
RECURSIVE TrimRight(_)
TrimRight(s) ==
    IF s # << >> /\ IsSpace(s[Len(s)]) THEN TrimRight(SubSeq(s, 1, Len(s) - 1)) ELSE s
\* String.prototype.trim
Trim(s) == TrimRight(TrimLeft(s))

\* value.replace(',', '.'): the first comma only
ReplaceComma(s) ==
    LET at == {i \in 1..Len(s) : s[i] = ","}
    IN  IF at = {} THEN s
        ELSE [i \in 1..Len(s) |->
                IF i = CHOOSE k \in at : \A j \in at : k <= j THEN "." ELSE s[i]]

\* number of digits of s from position i on
RECURSIVE DigitRun(_, _)
DigitRun(s, i) ==
    IF i <= Len(s) /\ s[i] \in DOMAIN DigitOf THEN 1 + DigitRun(s, i + 1) ELSE 0
\* the number written by the digits s[i..j]
RECURSIVE DigitsValue(_, _, _)
DigitsValue(s, i, j) ==
    IF j < i THEN 0 ELSE DigitsValue(s, i, j - 1) * 10 + DigitOf[s[j]]

\* parseFloat of a string: leading white space, a sign, digits, a period and
\* digits; what follows is ignored; NaN without any digit.  The value is in
\* hundredths, decimals after the second are dropped.
afterSign(t) == IF t # << >> /\ t[1] \in {"-", "+"} THEN 2 ELSE 1
fractionRun(t, at) == IF at <= Len(t) /\ t[at] = "." THEN DigitRun(t, at + 1) ELSE 0
fractionDigit(t, at, nf, k) == IF nf >= k THEN DigitOf[t[at + k]] ELSE 0
withSign(t, magnitude) == IF t[1] = "-" THEN 0 - magnitude ELSE magnitude
\* t has ni digits from position b on and nf digits after the period
numberOf(t, b, ni, nf) ==
    IF ni = 0 /\ nf = 0 THEN NaN
    ELSE Float(withSign(t, DigitsValue(t, b, b + ni - 1) * 100
                             + fractionDigit(t, b + ni, nf, 1) * 10
                             + fractionDigit(t, b + ni, nf, 2)))
parseFrom(t, b, ni) == numberOf(t, b, ni, fractionRun(t, b + ni))
parseTrimmed(t) == parseFrom(t, afterSign(t), DigitRun(t, afterSign(t)))
parseFloatString(s) == parseTrimmed(TrimLeft(s))

\* parseFloat: of a number the number, of null/undefined NaN
parseFloat(value) ==
    CASE value.t = "num" -> Float(value.v)
      [] value.t = "str" -> parseFloatString(value.s)
      [] OTHER -> NaN

(***************************************************************************)
(* Input rows.  A row is what Papa.parse yields for one CSV line; a field  *)
(* that is empty or absent is Null / NoValue.                              *)
(***************************************************************************)
Row(lng, lat, district, neighborhood, type, id, address) ==
    [Longitude |-> lng, Latitude |-> lat, district |-> district,
     neighborhood |-> neighborhood, type |-> type, id |-> id,
     address |-> address]

RowPool ==
    { Row(Num(-370), Num(4042), "Centro", "Sol", "LED", "7", "Calle Mayor 1"),
      Row(Num(-300), Num(4040), "Retiro", "Ibiza", Null, Null, Null),
      Row(Num(-435), Num(4015), Null, Null, "LED", Null, "Calle Mayor 1"),
      Row(Num(-310), Num(4065), "Zzz", "Sol", Null, "7", Null),
      Row(NoValue, Num(4042), "Centro", "Sol", "LED", "7", Null),
      Row(Str(<<"-", "3", ",", "7", "0">>), Str(<<"4", "0", ",", "4", "2">>),
          "Centro", "Sol", Null, Null, Null) }

Seqs(S, n) == UNION {[1..k -> S] : k \in 0..n}

\* A file is a pattern of rows and a number of rows n: row i of the file is
\* pattern[i] for a small file and the pattern repeated for a bulk one.
File(pattern, n) == [pattern |-> pattern, n |-> n]
FileRows(file) ==
    [i \in 1..file.n |-> file.pattern[((i - 1) % Len(file.pattern)) + 1]]

\* the small loads: at most MaxRows rows over the three files
SmallFiles == {File(rows, Len(rows)) : rows \in Seqs(RowPool, MaxRows)}
SmallLoads ==
    { c \in SmallFiles \X SmallFiles \X SmallFiles :
        c[1].n + c[2].n + c[3].n <= MaxRows }

\* the bulk loads: files of hundreds of rows
PatternA ==
    << Row(Num(-370), Num(4042), "Centro", "Sol", "LED", "7", "Calle Mayor 1") >>
PatternB ==
    << Row(Num(-370), Num(4042), "Centro", "Sol", "LED", "7", "Calle Mayor 1"),
       Row(Num(-310), Num(4065), "Retiro", "Ibiza", Null, "7", Null),
       Row(NoValue, Num(4042), "Centro", "Sol", "LED", "7", Null) >>
\* files of 100, 50 and 30 rows: 5 rows lie outside the region (every 20th
\* of the first file) and 3 name a district that does not resolve (every
\* 10th of the third file)
ScenarioTraffic ==
    [i \in 1..20 |->
        IF i = 20 THEN Row(Num(-300), Num(4040), "Retiro", Null, Null, "7", Null)
        ELSE Row(Num(-370), Num(4042), "Centro", Null, Null, "7", Null)]
ScenarioAcoustic ==
    [i \in 1..10 |->
        IF i = 10 THEN Row(Num(-310), Num(4065), "Zzz", Null, "LED", "7", Null)
        ELSE Row(Num(-370), Num(4042), "Chamberi", Null, "LED", "7", Null)]
ScenarioLoad ==
    << File(ScenarioTraffic, 100), File(PatternA, 50), File(ScenarioAcoustic, 30) >>

BulkLoads ==
    { ScenarioLoad,
      << File(PatternA, 1200), File(PatternA, 0), File(PatternA, 100) >>,
      << File(PatternA, 500), File(PatternB, 3), File(PatternA, 1) >>,
      << File(PatternB, 150), File(PatternB, 750), File(PatternB, 0) >>,
      << File(PatternB, 501), File(PatternA, 1), File(PatternA, 501) >> }

(***************************************************************************)
(* History events: "fetch" (x = 1 for the row-counting pass of part_002),  *)
(* "response" (the retrieval settles: x = 0 OK, 1 not OK, 2 rejected; y =  *)
(* 1 for the row-counting pass), "commit" (x rows handed to addLayers), "progress" (updateLoadingState   *)
(* with loaded x and total y), "percent" (showLoadingProgress, x in tenths *)
(* of a percent), "error" (showError, x the kind of message, y its count), *)
(* "initFilters", "statistics", "hide" (the overlay is hidden)             *)
(***************************************************************************)
Ev(e, d, x, y) == [e |-> e, ds |-> d, x |-> x, y |-> y]

\* How a retrieval can settle: the response is OK, it is not OK, or the
\* request is rejected.  At most MaxFailures retrievals of a run do not
\* settle OK.
Outcomes(lg) ==
    IF Cardinality({i \in DOMAIN lg : lg[i].e = "response" /\ lg[i].x # 0}) < MaxFailures
    THEN {"ok", "notok", "reject"}
    ELSE {"ok"}
Code(outcome) == CASE outcome = "ok" -> 0 [] outcome = "notok" -> 1 [] OTHER -> 2

\* the messages of showError
LoadFailed == 1         \* error.message of a failed load (app.js, part_001)
DataError == 2          \* `Data error: ...` (part_002 loadData)
FatalError == 3         \* `Fatal error: ...` (part_002 initMap)
InvalidRows == 4        \* `N invalid rows were skipped. ...`
ReadFailed == 5         \* the message of the TypeError of a read of undefined

(***************************************************************************)
(* app.js: row -> feature                                                  *)
(***************************************************************************)
\* parseCoordinateValue: a string is parsed after its first comma is turned
\* into a period
parseCoordinateValue(value) ==
    IF value.t = "str"
    THEN parseFloatString(Trim(ReplaceComma(value.s)))
    ELSE parseFloat(value)

\* parseCoordinates: [lng, lat], or null (ok = FALSE) when a coordinate is
\* 0, missing or not a number
parseCoordinates(row) ==
    LET lng == parseCoordinateValue(row.Longitude)
        lat == parseCoordinateValue(row.Latitude)
    IN  IF lng.nan \/ lat.nan \/ lng.v = 0 \/ lat.v = 0
        THEN [ok |-> FALSE, lng |-> 0, lat |-> 0]
        ELSE [ok |-> TRUE, lng |-> lng.v, lat |-> lat.v]

createFeature(row, name, coords) ==
    [category |-> name,
     coordinates |-> <<coords.lng, coords.lat>>,
     district |-> OrElse(row.district, "Unknown"),
     neighborhood |-> IF name = "Streetlights" THEN row.neighborhood ELSE "N/A",
     type |-> OrElse(row.type, "N/A"),
     id |-> OrElse(row.id, "N/A"),
     address |-> IF name = "Streetlights" THEN row.address ELSE "N/A"]

\* the for-loop over results.data of loadData: the accepted rows, as features
rowLoopFeatures(rows, name) ==
    LET accepted == SelectSeq(rows, LAMBDA r : parseCoordinates(r).ok)
    IN  [k \in 1..Len(accepted) |->
            createFeature(accepted[k], name, parseCoordinates(accepted[k]))]

\* ... and the progress reports it issues: one whenever features.length is a
\* multiple of 100, loadingState.loaded having been incremented once per
\* accepted row
rowLoopReports(d, nAccepted, total) ==
    [j \in 1..(nAccepted \div REPORT_EVERY) |->
        Ev("progress", d, j * REPORT_EVERY, total)]

\* L.marker(feature.geometry.coordinates, { icon }).  The record keeps the
\* feature the marker was made for; the scripts can read it only from a
\* marker that exposes it.
Marker(feature) == [feature |-> feature, opacity |-> 1]

\* The markers of the library: "assumed" ones are as app.js and part_001
\* take them to be, marker.feature being the feature; "leaflet" ones carry
\* what the constructor was given (coordinates and options), marker.feature
\* is undefined and reading marker.feature.properties throws a TypeError;
\* their _leaflet_id is assigned when a layer group first stores them, and
\* is undefined before.
Libraries == {"assumed", "leaflet"}
exposesFeature == library = "assumed"

(***************************************************************************)
(* app.js: filter engine and statistics                                    *)
(***************************************************************************)
Facets == {"categories", "districts", "neighborhoods"}
NoFilters == [categories |-> {}, districts |-> {}, neighborhoods |-> {}]

\* the unique values of initFilters(data)
facetValues(data) ==
    [categories |-> {data[i].category : i \in 1..Len(data)},
     districts |-> {data[i].district : i \in 1..Len(data)},
     neighborhoods |-> {data[i].neighborhood : i \in 1..Len(data)}]

\* populateFilters: one checked checkbox per value that is neither falsy
\* nor 'Unknown'
populateFilters(values) == {v \in values : ~Falsy(v) /\ v # "Unknown"}

\* the test of processLayer
isVisible(af, props) ==
    /\ props.category \in af.categories
    /\ props.district \in af.districts
    /\ props.neighborhood \in af.neighborhoods

\* processLayer: up to 100 layers of the pass, starting after index; again
\* tells whether the for-loop ran to its end and the pass is rescheduled
processLayer(markers, af, n, index) ==
    LET last == Min(index + VISIBILITY_CHUNK, n)
    IN  [markers |-> [i \in 1..Len(markers) |->
                        IF index < i /\ i <= last
                        THEN [markers[i] EXCEPT
                                !.opacity = IF isVisible(af, markers[i].feature)
                                            THEN 1 ELSE 0]
                        ELSE markers[i]],
         index |-> last,
         again |-> n - index >= VISIBILITY_CHUNK]

\* a pass that counts the districts of every marker, visible or not
updateStatistics_all(markers) ==
    LET vis == {i \in 1..Len(markers) : markers[i].opacity = 1}
    IN  [total |-> Cardinality(vis),
         categories |->
            [c \in {markers[i].feature.category : i \in vis} |->
                Cardinality({i \in vis : markers[i].feature.category = c})],
         districts |->
            [d \in {markers[i].feature.district : i \in 1..Len(markers)} |->
                Cardinality({i \in 1..Len(markers) : markers[i].feature.district = d})]]
\* updateStatistics: one pass over the store, counting markers of opacity 1
updateStatistics(markers) ==
    LET vis == {i \in 1..Len(markers) : markers[i].opacity = 1}
    IN  [total |-> Cardinality(vis),
         categories |->
            [c \in {markers[i].feature.category : i \in vis} |->
                Cardinality({i \in vis : markers[i].feature.category = c})],
         districts |->
            [d \in {markers[i].feature.district : i \in vis} |->
                Cardinality({i \in vis : markers[i].feature.district = d})]]

NoStats == [total |-> 0, categories |-> <<>>, districts |-> <<>>]

\* history of the statistics passes: how many there were, the snapshot of
\* the pass before the last one, and whether the last two read the same
\* store with the same opacities
StatsRun(dirty) ==
    [count |-> statsRuns.count + 1,
     prev |-> stats,
     repeat |-> statsRuns.count > 0 /\ ~dirty]

(***************************************************************************)
(* app.js: loadData                                                        *)
(***************************************************************************)
\* catch (error) of loadData: showError
AppFail(lg) ==
    /\ pc' = "failed"
    /\ log' = Append(lg, Ev("error", ds, LoadFailed, 0))
    /\ UNCHANGED <<ds, features, processed, allData, loadingState,
                   markersCluster, commits, boxes, checked, activeFilters,
                   rafQueue, stats, statsRuns, changed, overlayHidden, toggles>>

\* for (const dataset of datasets): there is a dataset after the d-th
moreDatasets(d) == d < Len(DatasetNames)

\* lines 107-112: the dataset is committed; the next one is fetched, or the
\* load ends with initFilters, updateStatistics and the overlay hidden
AppDatasetDone(feats, proc, ls, lg) ==
    LET all == allData \o feats
        values == facetValues(all)
        shown == [f \in Facets |-> populateFilters(values[f])]
    IN  /\ allData' = all
        /\ features' = feats
        /\ processed' = proc
        /\ UNCHANGED <<markersCluster, commits, rafQueue, toggles>>
        /\ IF moreDatasets(ds)
           THEN /\ ds' = ds + 1
                /\ loadingState' = [ls EXCEPT !.currentDataset = DatasetNames[ds + 1]]
                /\ log' = Append(lg, Ev("fetch", ds + 1, 0, 0))
                /\ pc' = "fetch"
                /\ UNCHANGED <<boxes, checked, activeFilters, stats, statsRuns,
                               changed, overlayHidden>>
           ELSE /\ ds' = ds
                /\ loadingState' = ls
                /\ boxes' = shown
                /\ checked' = shown
                /\ activeFilters' = values
                /\ IF exposesFeature \/ markersCluster = << >>
                   THEN /\ stats' = updateStatistics(markersCluster)
                        /\ statsRuns' = StatsRun(changed)
                        /\ changed' = FALSE
                        /\ log' = lg \o << Ev("initFilters", ds, 0, 0),
                                           Ev("statistics", ds, 0, 0),
                                           Ev("hide", ds, 0, 0) >>
                        /\ overlayHidden' = TRUE
                        /\ pc' = "done"
                   ELSE \* updateStatistics throws at its first marker (line
                        \* 345), loadData catches and calls showError
                        /\ log' = lg \o << Ev("initFilters", ds, 0, 0),
                                           Ev("error", ds, ReadFailed, 0) >>
                        /\ pc' = "failed"
                        /\ UNCHANGED <<stats, statsRuns, changed, overlayHidden>>

\* Array.prototype.slice(start, end), 0 <= start <= end
slice(array, start, end) == SubSeq(array, start + 1, Min(end, Len(array)))

\* a loop that commits full batches only
batchPending_full(feats, proc) == proc + BATCH_SIZE <= Len(feats)
\* the test of the while-loop of addFeaturesInBatches
batchPending(feats, proc) == proc < Len(feats)

\* addFeaturesInBatches from the test of its while-loop to the next await
addFeaturesInBatches(feats, proc, ls, lg) ==
    IF batchPending(feats, proc)
    THEN LET batch == slice(feats, proc, proc + BATCH_SIZE)
             ls2 == [ls EXCEPT !.loaded = @ + Len(batch)]
         IN  /\ markersCluster' = markersCluster \o [k \in 1..Len(batch) |-> Marker(batch[k])]
             /\ commits' = Append(commits, [ds |-> ds, batch |-> batch])
             /\ processed' = proc + Len(batch)
             /\ loadingState' = ls2
             /\ log' = lg \o << Ev("commit", ds, Len(batch), 0),
                                Ev("progress", ds, ls2.loaded, ls2.total) >>
             /\ features' = feats
             /\ pc' = "timer"
             /\ changed' = TRUE
             /\ UNCHANGED <<ds, allData, boxes, checked, activeFilters, rafQueue,
                            stats, statsRuns, overlayHidden, toggles>>
    ELSE AppDatasetDone(feats, proc, ls, lg)

\* DOMContentLoaded: initMap, then loadData up to its first await
AppStart ==
    /\ variant = "app" /\ pc = "init"
    /\ UNCHANGED <<library, districtInput, districtResult>>
    /\ UNCHANGED p2Vars
    /\ ds' = 1
    /\ loadingState' = [loadingState EXCEPT !.currentDataset = DatasetNames[1]]
    /\ log' = Append(log, Ev("fetch", 1, 0, 0))
    /\ pc' = "fetch"
    /\ UNCHANGED <<variant, csv, features, processed, allData, markersCluster,
                   commits, boxes, checked, activeFilters, rafQueue, stats,
                   statsRuns, changed, overlayHidden, toggles>>

\* await fetch(url): it rejects, or resolves with response.ok false or true
AppFetchSettles ==
    /\ variant = "app" /\ pc = "fetch"
    /\ UNCHANGED <<library, districtInput, districtResult>>
    /\ UNCHANGED p2Vars
    /\ UNCHANGED <<variant, csv>>
    /\ \E outcome \in Outcomes(log) :
        IF outcome = "ok"
        THEN /\ pc' = "text"
             /\ log' = Append(log, Ev("response", ds, 0, 0))
             /\ UNCHANGED <<ds, features, processed, allData, loadingState,
                            markersCluster, commits, boxes, checked,
                            activeFilters, rafQueue, stats, statsRuns, changed,
                            overlayHidden, toggles>>
        ELSE AppFail(Append(log, Ev("response", ds, Code(outcome), 0)))

\* await response.text(), Papa.parse, the row loop, and the first batch
AppTextSettles ==
    /\ variant = "app" /\ pc = "text"
    /\ UNCHANGED <<library, districtInput, districtResult>>
    /\ UNCHANGED p2Vars
    /\ UNCHANGED <<variant, csv>>
    /\ \E ok \in BOOLEAN :
        IF ok
        THEN LET rows == FileRows(csv[ds])
                 feats == rowLoopFeatures(rows, DatasetNames[ds])
                 ls == [loadingState EXCEPT !.total = Len(rows), !.loaded = Len(feats)]
                 lg == log \o << Ev("progress", ds, 0, Len(rows)) >>
                           \o rowLoopReports(ds, Len(feats), Len(rows))
             IN  addFeaturesInBatches(feats, 0, ls, lg)
        ELSE AppFail(Append(log, Ev("response", ds, 2, 0)))

\* a timer whose callback never resolves the promise of the batch
AppTimerFires_lost ==
    /\ variant = "app" /\ pc = "timer"
    /\ UNCHANGED vars

\* the setTimeout(resolve, BATCH_DELAY) after a batch fires
AppTimerFires ==
    /\ variant = "app" /\ pc = "timer"
    /\ UNCHANGED <<library, districtInput, districtResult>>
    /\ UNCHANGED p2Vars
    /\ UNCHANGED <<variant, csv>>
    /\ addFeaturesInBatches(features, processed, loadingState, log)

(***************************************************************************)
(* app.js: a checkbox changes and handleFilterChange (the later of the two *)
(* declarations, which is the one in effect) runs                          *)
(***************************************************************************)
Flip(set, v) == IF v \in set THEN set \ {v} ELSE set \cup {v}

handleFilterChange(facet, v) ==
    LET now == [checked EXCEPT ![facet] = Flip(@, v)]
        n == Len(markersCluster)
        first == processLayer(markersCluster, now, n, 0)
    IN  /\ checked' = now
        /\ activeFilters' = now
        /\ IF exposesFeature \/ markersCluster = << >>
           THEN /\ markersCluster' = first.markers
                /\ rafQueue' = IF first.again
                               THEN Append(rafQueue, [n |-> n, index |-> first.index])
                               ELSE rafQueue
                /\ stats' = updateStatistics(first.markers)
                /\ statsRuns' = StatsRun(changed \/ first.markers # markersCluster)
                /\ changed' = FALSE
                /\ log' = Append(log, Ev("statistics", 0, 0, 0))
           ELSE \* processLayer throws at its first layer (line 318) and the
                \* handler ends there
                UNCHANGED <<markersCluster, rafQueue, stats, statsRuns, changed, log>>

AppToggle ==
    /\ variant = "app" /\ toggles > 0
    /\ UNCHANGED <<library, districtInput, districtResult>>
    /\ UNCHANGED p2Vars
    /\ \E facet \in Facets : \E v \in boxes[facet] : handleFilterChange(facet, v)
    /\ toggles' = toggles - 1
    /\ UNCHANGED <<variant, csv, pc, ds, features, processed, allData,
                   loadingState, commits, boxes, overlayHidden>>

\* an animation frame runs the oldest pending processLayer callback
AppFrame ==
    /\ variant = "app" /\ rafQueue # <<>>
    /\ UNCHANGED <<library, districtInput, districtResult>>
    /\ UNCHANGED p2Vars
    /\ LET pass == Head(rafQueue)
           step == processLayer(markersCluster, activeFilters, pass.n, pass.index)
       IN  /\ markersCluster' = step.markers
           /\ changed' = (changed \/ step.markers # markersCluster)
           /\ rafQueue' = Tail(rafQueue) \o
                            (IF step.again
                             THEN << [n |-> pass.n, index |-> step.index] >>
                             ELSE << >>)
    /\ UNCHANGED <<variant, csv, pc, ds, features, processed, allData,
                   loadingState, commits, log, boxes, checked, activeFilters,
                   stats, statsRuns, overlayHidden, toggles>>

(***************************************************************************)
(* part_001: row -> feature.  updateLoadingState is called but not         *)
(* declared in part_001; it is the progress report of app.js.              *)
(***************************************************************************)
\* String(value).replace(',', '.') of the retry
retryText(value) ==
    CASE value.t = "str" -> ReplaceComma(value.s)
      [] value.t = "null" -> <<"n", "u", "l", "l">>
      [] OTHER -> << >>

\* parseFloat(x), and only when that is NaN the parse with the comma replaced
parseWithRetry(value) ==
    LET first == parseFloat(value)
    IN  IF first.nan /\ value.t # "num" THEN parseFloatString(retryText(value))
        ELSE first

parseCoordinates_p1(row) ==
    LET lng == parseWithRetry(row.Longitude)
        lat == parseWithRetry(row.Latitude)
    IN  IF lng.nan \/ lat.nan
        THEN [ok |-> FALSE, lng |-> 0, lat |-> 0]
        ELSE [ok |-> TRUE, lng |-> lng.v, lat |-> lat.v]

\* the for-loop over results.data of loadData (lines 96-118)
rowLoopFeatures_p1(rows, name) ==
    LET accepted == SelectSeq(rows, LAMBDA r : parseCoordinates_p1(r).ok)
    IN  [k \in 1..Len(accepted) |->
            createFeature(accepted[k], name, parseCoordinates_p1(accepted[k]))]

(***************************************************************************)
(* part_001: filters and statistics                                        *)
(***************************************************************************)
\* initFilters: district boxes from the store, neighborhood boxes of the
\* checked districts (updateNeighborhoodFilters), the three category boxes;
\* activeFilters is left as it is
initFilters_p1(markers) ==
    LET districts == populateFilters({markers[i].feature.district : i \in 1..Len(markers)})
        available == {markers[i].feature.neighborhood :
                        i \in {k \in 1..Len(markers) : markers[k].feature.district \in districts}}
    IN  [categories |-> populateFilters(Range(DatasetNames)),
         districts |-> districts,
         neighborhoods |-> populateFilters(available)]

\* updateVisibility: every marker of the store, in one go
updateVisibility_p1(markers, af) ==
    [i \in 1..Len(markers) |->
        [markers[i] EXCEPT !.opacity = IF isVisible(af, markers[i].feature) THEN 1 ELSE 0]]

\* updateStatistics: stats.totals per category; the entry of a district (of
\* a neighborhood) is created at its first visible marker as
\* { total: 0, ...stats.totals }, that is from the running totals, the
\* marker itself already counted, and then incremented once per marker
groupStats_p1(w, key) ==
    LET at(g) == SelectSeq([i \in 1..Len(w) |-> i], LAMBDA i : w[i].feature[key] = g)
    IN  [g \in {w[i].feature[key] : i \in 1..Len(w)} |->
            LET first == Head(at(g))
            IN  [total |-> Len(at(g)),
                 counts |-> [c \in Range(DatasetNames) |->
                    Cardinality({i \in 1..first : w[i].feature.category = c})
                  + Cardinality({i \in Range(at(g)) : w[i].feature.category = c})]]]

\* w: the markers of opacity 1, in the order eachLayer visits them
updateStatistics_p1(markers) ==
    LET w == SelectSeq(markers, LAMBDA m : m.opacity = 1)
    IN  [totals |-> [c \in Range(DatasetNames) |->
                        Cardinality({i \in 1..Len(w) : w[i].feature.category = c})],
         districts |-> groupStats_p1(w, "district"),
         neighborhoods |-> groupStats_p1(w, "neighborhood")]

(***************************************************************************)
(* part_001: loadData                                                      *)
(***************************************************************************)
P1DatasetDone(feats, i, ls, lg) ==
    /\ features' = feats
    /\ processed' = i
    /\ UNCHANGED <<allData, markersCluster, commits, rafQueue, toggles,
                   activeFilters>>
    /\ IF ds < Len(DatasetNames)
       THEN /\ ds' = ds + 1
            /\ loadingState' = [ls EXCEPT !.currentDataset = DatasetNames[ds + 1]]
            /\ log' = Append(lg, Ev("fetch", ds + 1, 0, 0))
            /\ pc' = "fetch"
            /\ UNCHANGED <<boxes, checked, stats, statsRuns, changed, overlayHidden>>
       ELSE /\ ds' = ds
            /\ loadingState' = ls
            /\ IF exposesFeature \/ markersCluster = << >>
               THEN /\ boxes' = initFilters_p1(markersCluster)
                    /\ checked' = initFilters_p1(markersCluster)
                    /\ stats' = updateStatistics_p1(markersCluster)
                    /\ statsRuns' = StatsRun(changed)
                    /\ changed' = FALSE
                    /\ log' = lg \o << Ev("initFilters", ds, 0, 0),
                                       Ev("statistics", ds, 0, 0),
                                       Ev("hide", ds, 0, 0) >>
                    /\ overlayHidden' = TRUE
                    /\ pc' = "done"
               ELSE \* initFilters throws at its first marker (line 178),
                    \* loadData catches and calls showError
                    /\ log' = Append(lg, Ev("error", ds, ReadFailed, 0))
                    /\ pc' = "failed"
                    /\ UNCHANGED <<boxes, checked, stats, statsRuns, changed,
                                   overlayHidden>>

\* a for-loop that stops one batch early
batchPending_p1_early(feats, i) == i + BATCH_SIZE < Len(feats)
\* the test of the for-loop of addMarkersInBatches
batchPending_p1(feats, i) == i < Len(feats)

\* addMarkersInBatches from the test of its for-loop to the next await
addMarkersInBatches(feats, i, ls, lg) ==
    IF batchPending_p1(feats, i)
    THEN LET batch == slice(feats, i, i + BATCH_SIZE)
         IN  /\ markersCluster' = markersCluster \o [k \in 1..Len(batch) |-> Marker(batch[k])]
             /\ commits' = Append(commits, [ds |-> ds, batch |-> batch])
             /\ processed' = i
             /\ loadingState' = ls
             /\ log' = Append(lg, Ev("commit", ds, Len(batch), 0))
             /\ features' = feats
             /\ pc' = "timer"
             /\ changed' = TRUE
             /\ UNCHANGED <<ds, allData, boxes, checked, activeFilters, rafQueue,
                            stats, statsRuns, overlayHidden, toggles>>
    ELSE P1DatasetDone(feats, i, ls, lg)

P1Start ==
    /\ variant = "p1" /\ pc = "init"
    /\ UNCHANGED <<library, districtInput, districtResult>>
    /\ UNCHANGED p2Vars
    /\ ds' = 1
    /\ loadingState' = [loadingState EXCEPT !.currentDataset = DatasetNames[1]]
    /\ log' = Append(log, Ev("fetch", 1, 0, 0))
    /\ pc' = "fetch"
    /\ UNCHANGED <<variant, csv, features, processed, allData, markersCluster,
                   commits, boxes, checked, activeFilters, rafQueue, stats,
                   statsRuns, changed, overlayHidden, toggles>>

P1FetchSettles ==
    /\ variant = "p1" /\ pc = "fetch"
    /\ UNCHANGED <<library, districtInput, districtResult>>
    /\ UNCHANGED p2Vars
    /\ UNCHANGED <<variant, csv>>
    /\ \E outcome \in Outcomes(log) :
        IF outcome = "ok"
        THEN /\ pc' = "text"
             /\ log' = Append(log, Ev("response", ds, 0, 0))
             /\ UNCHANGED <<ds, features, processed, allData, loadingState,
                            markersCluster, commits, boxes, checked,
                            activeFilters, rafQueue, stats, statsRuns, changed,
                            overlayHidden, toggles>>
        ELSE AppFail(Append(log, Ev("response", ds, Code(outcome), 0)))

P1TextSettles ==
    /\ variant = "p1" /\ pc = "text"
    /\ UNCHANGED <<library, districtInput, districtResult>>
    /\ UNCHANGED p2Vars
    /\ UNCHANGED <<variant, csv>>
    /\ \E ok \in BOOLEAN :
        IF ok
        THEN LET rows == FileRows(csv[ds])
                 feats == rowLoopFeatures_p1(rows, DatasetNames[ds])
                 ls == [loadingState EXCEPT !.total = Len(rows), !.loaded = Len(feats)]
                 lg == log \o << Ev("progress", ds, 0, Len(rows)) >>
                           \o rowLoopReports(ds, Len(feats), Len(rows))
             IN  addMarkersInBatches(feats, 0, ls, lg)
        ELSE AppFail(Append(log, Ev("response", ds, 2, 0)))

\* the timer fires: i += batchSize, then the test of the for-loop
P1TimerFires ==
    /\ variant = "p1" /\ pc = "timer"
    /\ UNCHANGED <<library, districtInput, districtResult>>
    /\ UNCHANGED p2Vars
    /\ UNCHANGED <<variant, csv>>
    /\ addMarkersInBatches(features, processed + BATCH_SIZE, loadingState, log)

\* a checkbox changes and applyFilters runs
applyFilters_p1(facet, v) ==
    LET now == [checked EXCEPT ![facet] = Flip(@, v)]
        shown == updateVisibility_p1(markersCluster, now)
    IN  /\ checked' = now
        /\ activeFilters' = now
        /\ IF exposesFeature \/ markersCluster = << >>
           THEN /\ markersCluster' = shown
                /\ stats' = updateStatistics_p1(shown)
                /\ statsRuns' = StatsRun(changed \/ shown # markersCluster)
                /\ changed' = FALSE
                /\ log' = Append(log, Ev("statistics", 0, 0, 0))
           ELSE \* updateVisibility throws at its first marker (line 236)
                UNCHANGED <<markersCluster, stats, statsRuns, changed, log>>

P1Toggle ==
    /\ variant = "p1" /\ toggles > 0
    /\ UNCHANGED <<library, districtInput, districtResult>>
    /\ UNCHANGED p2Vars
    /\ \E facet \in Facets : \E v \in boxes[facet] : applyFilters_p1(facet, v)
    /\ toggles' = toggles - 1
    /\ UNCHANGED <<variant, csv, pc, ds, features, processed, allData,
                   loadingState, commits, boxes, rafQueue, overlayHidden>>

(***************************************************************************)
(* part_002: text.  A string that is taken apart is a sequence of          *)
(* characters; Text gives the characters of the strings of the model.      *)
(***************************************************************************)
Text ==
    ("Centro" :> <<"C", "e", "n", "t", "r", "o">>) @@
    ("Arganzuela" :> <<"A", "r", "g", "a", "n", "z", "u", "e", "l", "a">>) @@
    ("Retiro" :> <<"R", "e", "t", "i", "r", "o">>) @@
    ("Salamanca" :> <<"S", "a", "l", "a", "m", "a", "n", "c", "a">>) @@
    ("Chamartín" :> <<"C", "h", "a", "m", "a", "r", "t", "í", "n">>) @@
    ("Tetuán" :> <<"T", "e", "t", "u", "á", "n">>) @@
    ("Chamberí" :> <<"C", "h", "a", "m", "b", "e", "r", "í">>) @@
    ("Fuencarral-El Pardo" :> <<"F", "u", "e", "n", "c", "a", "r", "r", "a", "l", "-", "E", "l", " ", "P", "a", "r", "d", "o">>) @@
    ("Moncloa-Aravaca" :> <<"M", "o", "n", "c", "l", "o", "a", "-", "A", "r", "a", "v", "a", "c", "a">>) @@
    ("Latina" :> <<"L", "a", "t", "i", "n", "a">>) @@
    ("Carabanchel" :> <<"C", "a", "r", "a", "b", "a", "n", "c", "h", "e", "l">>) @@
    ("Usera" :> <<"U", "s", "e", "r", "a">>) @@
    ("Puente de Vallecas" :> <<"P", "u", "e", "n", "t", "e", " ", "d", "e", " ", "V", "a", "l", "l", "e", "c", "a", "s">>) @@
    ("Moratalaz" :> <<"M", "o", "r", "a", "t", "a", "l", "a", "z">>) @@
    ("Ciudad Lineal" :> <<"C", "i", "u", "d", "a", "d", " ", "L", "i", "n", "e", "a", "l">>) @@
    ("Hortaleza" :> <<"H", "o", "r", "t", "a", "l", "e", "z", "a">>) @@
    ("Villaverde" :> <<"V", "i", "l", "l", "a", "v", "e", "r", "d", "e">>) @@
    ("Villa de Vallecas" :> <<"V", "i", "l", "l", "a", " ", "d", "e", " ", "V", "a", "l", "l", "e", "c", "a", "s">>) @@
    ("Vicálvaro" :> <<"V", "i", "c", "á", "l", "v", "a", "r", "o">>) @@
    ("San Blas-Canillejas" :> <<"S", "a", "n", " ", "B", "l", "a", "s", "-", "C", "a", "n", "i", "l", "l", "e", "j", "a", "s">>) @@
    ("Barajas" :> <<"B", "a", "r", "a", "j", "a", "s">>) @@
    ("moncloa" :> <<"m", "o", "n", "c", "l", "o", "a">>) @@
    ("chamberi" :> <<"c", "h", "a", "m", "b", "e", "r", "i">>) @@
    ("vicalvaro" :> <<"v", "i", "c", "a", "l", "v", "a", "r", "o">>) @@
    ("fuencarral el pardo" :> <<"f", "u", "e", "n", "c", "a", "r", "r", "a", "l", " ", "e", "l", " ", "p", "a", "r", "d", "o">>) @@
    ("puente de vallekas" :> <<"p", "u", "e", "n", "t", "e", " ", "d", "e", " ", "v", "a", "l", "l", "e", "k", "a", "s">>) @@
    ("ciudad lineal" :> <<"c", "i", "u", "d", "a", "d", " ", "l", "i", "n", "e", "a", "l">>) @@
    ("san blas" :> <<"s", "a", "n", " ", "b", "l", "a", "s">>) @@
    ("barajas" :> <<"b", "a", "r", "a", "j", "a", "s">>) @@
    ("CHAMBERI" :> <<"C", "H", "A", "M", "B", "E", "R", "I">>) @@
    ("Zzz" :> <<"Z", "z", "z">>) @@
    ("aravaca" :> <<"a", "r", "a", "v", "a", "c", "a">>) @@
    ("" :> <<>>) @@
    (" " :> <<" ">>) @@
    ("-" :> <<"-">>) @@
    ("a" :> <<"a">>) @@
    ("Chamberi" :> <<"C", "h", "a", "m", "b", "e", "r", "i">>) @@
    ("CHAMBERÍ" :> <<"C", "H", "A", "M", "B", "E", "R", "Í">>) @@
    (" Chamberí " :> <<" ", "C", "h", "a", "m", "b", "e", "r", "í", " ">>) @@
    ("centro" :> <<"c", "e", "n", "t", "r", "o">>) @@
    ("CENTRO" :> <<"C", "E", "N", "T", "R", "O">>) @@
    ("Moncloa Aravaca" :> <<"M", "o", "n", "c", "l", "o", "a", " ", "A", "r", "a", "v", "a", "c", "a">>) @@
    ("MONCLOA - ARAVACA" :> <<"M", "O", "N", "C", "L", "O", "A", " ", "-", " ", "A", "R", "A", "V", "A", "C", "A">>) @@
    ("San Blas Canillejas" :> <<"S", "a", "n", " ", "B", "l", "a", "s", " ", "C", "a", "n", "i", "l", "l", "e", "j", "a", "s">>) @@
    ("San  Blas" :> <<"S", "a", "n", " ", " ", "B", "l", "a", "s">>) @@
    ("SAN BLAS" :> <<"S", "A", "N", " ", "B", "L", "A", "S">>) @@
    ("Vallecas" :> <<"V", "a", "l", "l", "e", "c", "a", "s">>) @@
    ("Villa" :> <<"V", "i", "l", "l", "a">>) @@
    ("VICALVARO" :> <<"V", "I", "C", "A", "L", "V", "A", "R", "O">>) @@
    ("retiro" :> <<"r", "e", "t", "i", "r", "o">>) @@
    ("Tetuan" :> <<"T", "e", "t", "u", "a", "n">>) @@
    ("ciudad-lineal" :> <<"c", "i", "u", "d", "a", "d", "-", "l", "i", "n", "e", "a", "l">>) @@
    ("Constructor" :> <<"C", "o", "n", "s", "t", "r", "u", "c", "t", "o", "r">>) @@
    ("constructor" :> <<"c", "o", "n", "s", "t", "r", "u", "c", "t", "o", "r">>) @@
    ("__proto__" :> <<"_", "_", "p", "r", "o", "t", "o", "_", "_">>)

\* toLowerCase
LowerOf ==
    ("A" :> "a") @@ ("B" :> "b") @@ ("C" :> "c") @@ ("D" :> "d") @@
    ("E" :> "e") @@ ("F" :> "f") @@ ("G" :> "g") @@ ("H" :> "h") @@
    ("I" :> "i") @@ ("J" :> "j") @@ ("K" :> "k") @@ ("L" :> "l") @@
    ("M" :> "m") @@ ("N" :> "n") @@ ("O" :> "o") @@ ("P" :> "p") @@
    ("Q" :> "q") @@ ("R" :> "r") @@ ("S" :> "s") @@ ("T" :> "t") @@
    ("U" :> "u") @@ ("V" :> "v") @@ ("W" :> "w") @@ ("X" :> "x") @@
    ("Y" :> "y") @@ ("Z" :> "z") @@ ("Á" :> "á") @@ ("É" :> "é") @@
    ("Í" :> "í") @@ ("Ó" :> "ó") @@ ("Ú" :> "ú") @@ ("Ñ" :> "ñ") @@
    ("Ü" :> "ü")
Lower(c) == IF c \in DOMAIN LowerOf THEN LowerOf[c] ELSE c

\* normalize('NFD') followed by the removal of the combining marks
BaseOf ==
    ("á" :> "a") @@ ("é" :> "e") @@ ("í" :> "i") @@ ("ó" :> "o") @@
    ("ú" :> "u") @@ ("ñ" :> "n") @@ ("ü" :> "u")
Base(c) == IF c \in DOMAIN BaseOf THEN BaseOf[c] ELSE c

\* toLowerCase
toLowerCase(s) == [i \in 1..Len(s) |-> Lower(s[i])]
\* normalize('NFD').replace(/[\u0300-\u036f]/g, '')
withoutMarks(s) == [i \in 1..Len(s) |-> Base(s[i])]
\* replace(/-/g, ' ')
hyphensToSpaces(s) == [i \in 1..Len(s) |-> IF s[i] = "-" THEN " " ELSE s[i]]

\* replace(/\s+/g, ' ')
spaceOf(c) == IF IsSpace(c) THEN " " ELSE c
runStarts(t) ==
    SelectSeq([i \in 1..Len(t) |-> i],
              LAMBDA i : ~(t[i] = " " /\ i > 1 /\ t[i - 1] = " "))
pick(t, keep) == [k \in 1..Len(keep) |-> t[keep[k]]]
squeeze(t) == pick(t, runStarts(t))
CollapseSpaces(s) == squeeze([i \in 1..Len(s) |-> spaceOf(s[i])])

\* replace(/aravaca/g, '')
RECURSIVE RemoveAll(_, _)
RemoveAll(s, word) ==
    IF Len(s) < Len(word) THEN s
    ELSE IF SubSeq(s, 1, Len(word)) = word
         THEN RemoveAll(SubSeq(s, Len(word) + 1, Len(s)), word)
         ELSE << Head(s) >> \o RemoveAll(Tail(s), word)

\* String.prototype.includes
Includes(a, b) ==
    \E i \in 0..(Len(a) - Len(b)) : SubSeq(a, i + 1, i + Len(b)) = b

(***************************************************************************)
(* part_002: the district vocabulary (the names of the features of         *)
(* madrid-districts.geojson) and normalizeDistrict                         *)
(***************************************************************************)
MadridDistrictNames ==
    << "Centro", "Arganzuela", "Retiro", "Salamanca", "Chamartín", "Tetuán",
       "Chamberí", "Fuencarral-El Pardo", "Moncloa-Aravaca", "Latina",
       "Carabanchel", "Usera", "Puente de Vallecas", "Moratalaz",
       "Ciudad Lineal", "Hortaleza", "Villaverde", "Villa de Vallecas",
       "Vicálvaro", "San Blas-Canillejas", "Barajas" >>

districtVariants ==
    << [key |-> Text["moncloa"], name |-> "Moncloa-Aravaca"],
       [key |-> Text["chamberi"], name |-> "Chamberí"],
       [key |-> Text["vicalvaro"], name |-> "Vicálvaro"],
       [key |-> Text["fuencarral el pardo"], name |-> "Fuencarral-El Pardo"],
       [key |-> Text["puente de vallekas"], name |-> "Puente de Vallecas"],
       [key |-> Text["ciudad lineal"], name |-> "Ciudad Lineal"],
       [key |-> Text["san blas"], name |-> "San Blas-Canillejas"],
       [key |-> Text["barajas"], name |-> "Barajas"] >>

\* const cleanName
cleanName(chars) ==
    Trim(RemoveAll(
        CollapseSpaces(
            hyphensToSpaces(withoutMarks(toLowerCase(Trim(chars))))),
        Text["aravaca"]))

\* districtVariants[cleanName]: an own key of the table, or a member that
\* every object inherits from Object.prototype
memberOf(hits, clean) ==
    IF hits # << >> THEN Head(hits).name
    ELSE IF clean = Text["constructor"] THEN "<function Object>"
    ELSE IF clean = Text["__proto__"] THEN "<Object.prototype>"
    ELSE Null
variantOf(clean) ==
    memberOf(SelectSeq(districtVariants, LAMBDA e : e.key = clean), clean)

\* d.toLowerCase().normalize('NFD').replace(/[\u0300-\u036f]/g, '')
districtName(d) == withoutMarks(toLowerCase(Text[d]))
\* madridDistricts.find(...)
findDistrict(clean, vocabulary) ==
    SelectSeq(vocabulary,
              LAMBDA d : \/ Includes(districtName(d), clean)
                         \/ Includes(clean, districtName(d)))
\* found || 'Unknown'
foundOrUnknown(found) == IF found = << >> THEN "Unknown" ELSE Head(found)
variantOrFound(member, clean, vocabulary) ==
    IF member # Null THEN member
    ELSE foundOrUnknown(findDistrict(clean, vocabulary))
normalizeClean(clean, vocabulary) ==
    variantOrFound(variantOf(clean), clean, vocabulary)
\* name is a string (its characters)
normalizeDistrictText(chars, vocabulary) ==
    normalizeClean(cleanName(chars), vocabulary)

normalizeDistrict(name, vocabulary) ==
    IF Falsy(name) \/ ~IsString(name) THEN "Unknown"
    ELSE normalizeDistrictText(Text[name], vocabulary)

(***************************************************************************)
(* part_002: validation and markers                                        *)
(***************************************************************************)
madridBounds == [minLng |-> -435, maxLng |-> -310, minLat |-> 4015, maxLat |-> 4065]

validateCoordinates(lng, lat) ==
    /\ ~lng.nan /\ ~lat.nan
    /\ lng.v >= madridBounds.minLng /\ lng.v <= madridBounds.maxLng
    /\ lat.v >= madridBounds.minLat /\ lat.v <= madridBounds.maxLat

\* value === null || value === undefined || value === ''
emptyField(value) == value.t = "null" \/ (value.t = "str" /\ value.s = << >>)

validateRow(row) ==
    /\ ~emptyField(row.Longitude) /\ ~emptyField(row.Latitude)
    /\ ~Falsy(row.district)
    /\ ~parseFloat(row.Longitude).nan /\ ~parseFloat(row.Latitude).nan

\* a loop body without the test of validateCoordinates
rowAccepted_p2_unbounded(row) == validateRow(row)
\* the row passes both tests of the loop body (lines 161-172)
rowAccepted_p2(row) ==
    /\ validateRow(row)
    /\ validateCoordinates(parseFloat(row.Longitude), parseFloat(row.Latitude))

\* L.marker([lat, lng], { icon, properties }), with its _leaflet_id
Marker_p2(row, name, id, district) ==
    [id |-> id,
     latlng |-> << parseFloat(row.Latitude).v, parseFloat(row.Longitude).v >>,
     properties |-> [category |-> name,
                     district |-> district,
                     type |-> OrElse(row.type, "N/A"),
                     id |-> OrElse(row.id, "N/A"),
                     address |-> OrElse(row.address, "N/A")]]

\* Math.round(num / den) for num >= 0, den > 0
Round(num, den) == (2 * num + den) \div (2 * den)

\* 70 + (Math.round((processedRows / totalRows) * 100) * 0.3), in tenths;
\* Infinity when totalRows is 0
Infinity == 1000000000
progressOf(processedRows, totalRows) ==
    IF totalRows = 0 THEN Infinity
    ELSE 700 + 3 * Round(processedRows * 100, totalRows)

\* the for-loop over results.data of loadData (lines 157-205): the markers
\* of the accepted rows, the counters and the progress reports
rowLoop_p2(rows, d, cacheSize, counts, vocabulary) ==
    LET accepted == SelectSeq(rows, rowAccepted_p2)
        normalized == {<<n, normalizeDistrict(OrElse(n, ""), vocabulary)>> :
                         n \in {accepted[k].district : k \in 1..Len(accepted)}}
        district(n) == (CHOOSE p \in normalized : p[1] = n)[2]
        hundreds == SelectSeq([k \in 1..Len(accepted) |-> counts.processedRows + k],
                              LAMBDA n : n % REPORT_EVERY = 0)
    IN  [batchMarkers |->
            [k \in 1..Len(accepted) |->
                Marker_p2(accepted[k], DatasetNames[d], cacheSize + k,
                          district(accepted[k].district))],
         counts |-> [counts EXCEPT
                        !.processedRows = @ + Len(accepted),
                        !.invalidRows = @ + Len(rows) - Len(accepted)],
         reports |-> [j \in 1..Len(hundreds) |->
                        Ev("percent", d, progressOf(hundreds[j], counts.totalRows), 0)]]

\* a new marker has its _leaflet_id when line 194 reads it
stampedAtCreation == library = "assumed"

\* markersCache.set(marker._leaflet_id, marker) for the markers of a dataset
\* in turn: an entry per marker when each has its own id; a marker without
\* _leaflet_id is stored under the key undefined, where it replaces the
\* marker stored before it
cacheSet(cache, batchMarkers) ==
    IF stampedAtCreation THEN cache \o batchMarkers
    ELSE IF batchMarkers = << >> THEN cache
    ELSE << batchMarkers[Len(batchMarkers)] >>

\* initFilters: a box per dataset name and per district of the GeoJSON
initFilters_p2(vocabulary) ==
    [categories |-> Range(DatasetNames),
     districts |-> Range(vocabulary),
     neighborhoods |-> {}]

\* updateStatistics: the markers of the cache that the cluster holds
updateStatistics_p2(cache, cluster) ==
    LET ids == {cluster[i].id : i \in 1..Len(cluster)}
        vis == {i \in 1..Len(cache) : cache[i].id \in ids}
    IN  [total |-> Cardinality(vis),
         categories |->
            [c \in {cache[i].properties.category : i \in vis} |->
                Cardinality({i \in vis : cache[i].properties.category = c})],
         districts |->
            [d \in {cache[i].properties.district : i \in vis} |->
                Cardinality({i \in vis : cache[i].properties.district = d})]]

(***************************************************************************)
(* part_002: initMap and loadData.  The awaits of one fetch (the fetch,    *)
(* response.text() and the parse in the worker) are one step.              *)
(***************************************************************************)
\* the rows of a body: a response that is not OK carries a failure page,
\* which has no data line
bodyRows(file, outcome) == IF outcome = "ok" THEN FileRows(file) ELSE << >>

\* catch and finally of initMap
P2Fatal(lg) ==
    /\ log' = lg \o << Ev("error", ds, FatalError, 0), Ev("hide", ds, 0, 0),
                       Ev("percent", ds, 1000, 0) >>
    /\ overlayHidden' = TRUE
    /\ pc' = "failed"
    /\ UNCHANGED <<ds, markersCluster, commits, boxes, checked, stats,
                   statsRuns, changed, toggles, markersCache, rowCounts>>

\* catch of loadData, which rethrows to initMap
P2DataFail(lg) == P2Fatal(Append(lg, Ev("error", ds, DataError, 0)))

P2Start ==
    /\ variant = "p2" /\ pc = "init"
    /\ UNCHANGED <<library, districtInput, districtResult>>
    /\ log' = log \o << Ev("percent", 0, 100, 0), Ev("percent", 0, 300, 0),
                        Ev("fetch", 0, 0, 0) >>
    /\ pc' = "districts"
    /\ UNCHANGED <<variant, csv, ds, markersCluster, commits, boxes, checked,
                   stats, statsRuns, changed, overlayHidden, toggles>>
    /\ UNCHANGED p2Vars /\ UNCHANGED notP2Vars

\* the fetch of madrid-districts.geojson settles; when it is OK loadData
\* starts with the fetch of its row-counting pass
P2DistrictsSettle ==
    /\ variant = "p2" /\ pc = "districts"
    /\ UNCHANGED <<library, districtInput, districtResult>>
    /\ UNCHANGED <<variant, csv>> /\ UNCHANGED notP2Vars
    /\ \E outcome \in Outcomes(log) :
        IF outcome = "ok"
        THEN /\ madridDistricts' = MadridDistrictNames
             /\ log' = log \o << Ev("response", 0, 0, 0),
                                 Ev("percent", 0, 500, 0), Ev("percent", 0, 700, 0),
                                 Ev("fetch", 1, 1, 0) >>
             /\ ds' = 1
             /\ pc' = "count"
             /\ UNCHANGED <<markersCluster, commits, boxes, checked, stats,
                            statsRuns, changed, overlayHidden, toggles,
                            markersCache, rowCounts>>
        ELSE /\ P2Fatal(Append(log, Ev("response", 0, Code(outcome), 0)))
             /\ UNCHANGED madridDistricts

\* the first loop of loadData: totalRows += results.data.length
P2CountSettles ==
    /\ variant = "p2" /\ pc = "count"
    /\ UNCHANGED <<library, districtInput, districtResult>>
    /\ UNCHANGED <<variant, csv, madridDistricts>> /\ UNCHANGED notP2Vars
    /\ \E outcome \in Outcomes(log) :
        IF outcome = "reject" THEN P2DataFail(Append(log, Ev("response", ds, 2, 1)))
        ELSE /\ rowCounts' = [rowCounts EXCEPT
                    !.totalRows = @ + Len(bodyRows(csv[ds], outcome))]
             /\ IF ds < Len(DatasetNames)
                THEN /\ ds' = ds + 1
                     /\ log' = log \o << Ev("response", ds, Code(outcome), 1),
                                         Ev("fetch", ds + 1, 1, 0) >>
                     /\ pc' = "count"
                ELSE /\ ds' = 1
                     /\ log' = log \o << Ev("response", ds, Code(outcome), 1),
                                         Ev("fetch", 1, 0, 0) >>
                     /\ pc' = "load"
             /\ UNCHANGED <<markersCluster, commits, boxes, checked, stats,
                            statsRuns, changed, overlayHidden, toggles,
                            markersCache>>

\* the second loop of loadData: the rows of a dataset become markers, which
\* are cached one by one and committed together; after the last dataset
\* loadData returns and initMap goes on to its end
P2LoadSettles ==
    /\ variant = "p2" /\ pc = "load"
    /\ UNCHANGED <<library, districtInput, districtResult>>
    /\ UNCHANGED <<variant, csv, madridDistricts>> /\ UNCHANGED notP2Vars
    /\ \E outcome \in Outcomes(log) :
        IF outcome = "reject" THEN P2DataFail(Append(log, Ev("response", ds, 2, 0)))
        ELSE
        LET loop == rowLoop_p2(bodyRows(csv[ds], outcome), ds,
                               rowCounts.processedRows, rowCounts, madridDistricts)
            batchMarkers == loop.batchMarkers
            counts == loop.counts
            cluster == markersCluster \o batchMarkers
            cache == cacheSet(markersCache, batchMarkers)
            lg == log \o << Ev("response", ds, Code(outcome), 0) >> \o loop.reports
                      \o << Ev("commit", ds, Len(batchMarkers), 0) >>
        IN  /\ markersCluster' = cluster
            /\ markersCache' = cache
            /\ commits' = Append(commits, [ds |-> ds, batch |-> batchMarkers])
            /\ rowCounts' = counts
            /\ UNCHANGED toggles
            /\ IF ds < Len(DatasetNames)
               THEN /\ ds' = ds + 1
                    /\ log' = Append(lg, Ev("fetch", ds + 1, 0, 0))
                    /\ pc' = "load"
                    /\ changed' = (changed \/ batchMarkers # << >>)
                    /\ UNCHANGED <<boxes, checked, stats, statsRuns, overlayHidden>>
               ELSE /\ ds' = ds
                    /\ log' = lg \o (IF counts.invalidRows > 0
                                     THEN << Ev("error", ds, InvalidRows, counts.invalidRows) >>
                                     ELSE << >>)
                                 \o << Ev("percent", ds, 900, 0),
                                       Ev("initFilters", ds, 0, 0),
                                       Ev("statistics", ds, 0, 0),
                                       Ev("hide", ds, 0, 0),
                                       Ev("percent", ds, 1000, 0) >>
                    /\ boxes' = initFilters_p2(madridDistricts)
                    /\ checked' = initFilters_p2(madridDistricts)
                    /\ stats' = updateStatistics_p2(cache, cluster)
                    /\ statsRuns' = StatsRun(changed \/ batchMarkers # << >>)
                    /\ changed' = FALSE
                    /\ overlayHidden' = TRUE
                    /\ pc' = "done"

\* the boxes of part_002 that the user changes: those of two categories and
\* of two of the 21 districts
ToggledBoxes == {"Traffic Lights", "Streetlights", "Centro", "Chamberí"}

\* a checkbox changes and applyFilters runs: markers that should show are
\* added to the cluster, the others removed from it; updateStatistics
applyFilters_p2(facet, v) ==
    LET now == [checked EXCEPT ![facet] = Flip(@, v)]
        shouldShow(m) == /\ m.properties.category \in now.categories
                         /\ m.properties.district \in now.districts
        ids == {markersCluster[i].id : i \in 1..Len(markersCluster)}
        cluster == SelectSeq(markersCluster, shouldShow)
                     \o SelectSeq(markersCache, LAMBDA m : shouldShow(m) /\ m.id \notin ids)
    IN  /\ checked' = now
        /\ markersCluster' = cluster
        /\ stats' = updateStatistics_p2(markersCache, cluster)
        /\ statsRuns' = StatsRun(changed \/ cluster # markersCluster)
        /\ changed' = FALSE
        /\ log' = Append(log, Ev("statistics", 0, 0, 0))

P2Toggle ==
    /\ variant = "p2" /\ toggles > 0
    /\ UNCHANGED <<library, districtInput, districtResult>>
    /\ \E facet \in Facets : \E v \in boxes[facet] \cap ToggledBoxes :
            applyFilters_p2(facet, v)
    /\ toggles' = toggles - 1
    /\ UNCHANGED <<variant, csv, pc, ds, commits, boxes, overlayHidden>>
    /\ UNCHANGED p2Vars /\ UNCHANGED notP2Vars

(***************************************************************************)
(* part_002: normalizeDistrict on its own.  A run draws the argument and   *)
(* the loaded vocabulary and calls the function once.                      *)
(***************************************************************************)
\* the arguments: null, a number, strings with and without district text
DistrictInputs ==
    Range(MadridDistrictNames) \cup
    { Null, ANumber, "", " ", "-", "a", "aravaca", "Zzz", "constructor",
      "Constructor", "__proto__", "CHAMBERI", "Chamberi", "CHAMBERÍ",
      " Chamberí ", "chamberi", "centro", "CENTRO", "Moncloa Aravaca",
      "MONCLOA - ARAVACA", "moncloa", "San Blas Canillejas", "San  Blas",
      "SAN BLAS", "san blas", "fuencarral el pardo", "puente de vallekas",
      "Vallecas", "Villa", "VICALVARO", "vicalvaro", "retiro", "Tetuan",
      "ciudad-lineal", "ciudad lineal", "barajas" }

\* the vocabularies: the 21 districts, a GeoJSON that lacks one of them, and
\* one without features
Vocabularies ==
    { MadridDistrictNames,
      SelectSeq(MadridDistrictNames, LAMBDA d : d # "Chamberí"),
      << >> }

Pending == "<pending>"

\* the call normalizeDistrict(name) returns
NormalizeDistrict ==
    /\ pc = "normalize" /\ districtResult = Pending
    /\ districtResult' = normalizeDistrict(districtInput, madridDistricts)
    /\ pc' = "normalized"
    /\ UNCHANGED <<variant, library, csv, ds, markersCluster, commits, log,
                   boxes, checked, stats, statsRuns, changed, overlayHidden,
                   toggles, madridDistricts, markersCache, rowCounts,
                   districtInput>>
    /\ UNCHANGED notP2Vars

(***************************************************************************)
(* Specifications                                                          *)
(***************************************************************************)

\* the state before the script runs
Fresh ==
    /\ ds = 0
    /\ features = << >>
    /\ processed = 0
    /\ allData = << >>
    /\ loadingState = [total |-> 0, loaded |-> 0, currentDataset |-> ""]
    /\ markersCluster = << >>
    /\ commits = << >>
    /\ log = << >>
    /\ boxes = NoFilters
    /\ checked = NoFilters
    /\ activeFilters = NoFilters
    /\ rafQueue = << >>
    /\ stats = NoStats
    /\ statsRuns = [count |-> 0, prev |-> NoStats, repeat |-> FALSE]
    /\ changed = FALSE
    /\ overlayHidden = FALSE
    /\ markersCache = << >>
    /\ rowCounts = [totalRows |-> 0, processedRows |-> 0, invalidRows |-> 0]

\* part_002 keeps the properties in the options it creates the marker
\* with and reads them from there
InitWith(loads, budget) ==
    /\ variant \in {"app", "p1", "p2"}
    /\ library \in Libraries
    /\ csv \in loads
    /\ pc = "init"
    /\ toggles = budget
    /\ madridDistricts = << >>
    /\ districtInput = Null
    /\ districtResult = Null
    /\ Fresh

\* the small loads, and one of more markers than updateVisibility handles
\* before it yields
FrameLoad ==
    << File(PatternA, VISIBILITY_CHUNK + 1), File(PatternA, 0), File(PatternA, 0) >>
Init == InitWith(SmallLoads \cup {FrameLoad}, MaxToggles)
InitBulk == InitWith(BulkLoads, MaxBulkToggles)

Next ==
    \/ AppStart
    \/ AppFetchSettles
    \/ AppTextSettles
    \/ AppTimerFires
    \/ AppToggle
    \/ AppFrame
    \/ P1Start
    \/ P1FetchSettles
    \/ P1TextSettles
    \/ P1TimerFires
    \/ P1Toggle
    \/ P2Start
    \/ P2DistrictsSettle
    \/ P2CountSettles
    \/ P2LoadSettles
    \/ P2Toggle

Spec == Init /\ [][Next]_vars
SpecBulk == InitBulk /\ [][Next]_vars

\* the user changes checkboxes more than once, as fast as the event loop
\* delivers the change events
InitChanges == InitWith(SmallLoads \cup {FrameLoad}, MaxChanges)
SpecChanges == InitChanges /\ [][Next]_vars

\* normalizeDistrict on its own
InitDistrict ==
    /\ variant = "p2"
    /\ library = "assumed"
    /\ csv = << File(PatternA, 0), File(PatternA, 0), File(PatternA, 0) >>
    /\ pc = "normalize"
    /\ toggles = 0
    /\ madridDistricts \in Vocabularies
    /\ districtInput \in DistrictInputs
    /\ districtResult = Pending
    /\ Fresh
NextDistrict == NormalizeDistrict
SpecDistrict == InitDistrict /\ [][NextDistrict]_vars

\* app.js on its own: a fetch and response.text() eventually settle and the
\* timer of a batch eventually fires, each being a task the event loop runs
\* once it is due; nothing obliges the user to change a checkbox
InitApp == Init /\ variant = "app"
NextApp ==
    \/ AppStart
    \/ AppFetchSettles
    \/ AppTextSettles
    \/ AppTimerFires
    \/ AppToggle
    \/ AppFrame
FairLoader ==
    /\ WF_vars(AppStart)
    /\ WF_vars(AppFetchSettles)
    /\ WF_vars(AppTextSettles)
    /\ WF_vars(AppTimerFires)
SpecApp == InitApp /\ [][NextApp]_vars /\ FairLoader

(***************************************************************************)
(* Properties                                                              *)
(***************************************************************************)
\* the batches committed for dataset d, in commit order
BatchesOf(d) == SelectSeq(commits, LAMBDA c : c.ds = d)
RECURSIVE Flatten(_)
Flatten(batches) ==
    IF batches = << >> THEN << >>
    ELSE Head(batches).batch \o Flatten(Tail(batches))
\* the feature list the row loop of app.js or part_001 hands to the batching
AcceptedFeatures(d) ==
    IF variant = "app" THEN rowLoopFeatures(FileRows(csv[d]), DatasetNames[d])
    ELSE rowLoopFeatures_p1(FileRows(csv[d]), DatasetNames[d])
\* the batching of dataset d has returned
DatasetCommitted(d) == d < ds \/ (d = ds /\ pc = "done")
CeilDiv(n, b) == (n + b - 1) \div b
BatchShape(b, feats) ==
    /\ Len(b) = CeilDiv(Len(feats), BATCH_SIZE)
    /\ \A k \in 1..Len(b) :
        Len(b[k].batch) = IF k < Len(b) THEN BATCH_SIZE
                          ELSE Len(feats) - (Len(b) - 1) * BATCH_SIZE
    /\ Flatten(b) = feats

\* C1: once addFeaturesInBatches (app.js) or addMarkersInBatches (part_001)
\* has returned for a dataset of n accepted features, it has committed
\* ceil(n / BATCH_SIZE) batches, each but the last of BATCH_SIZE features,
\* the last of the remaining ones, and the batches concatenated in commit
\* order are the feature list in row order.
C1_Batches ==
    variant \in {"app", "p1"} =>
        \A d \in 1..Len(DatasetNames) :
            DatasetCommitted(d) => BatchShape(BatchesOf(d), AcceptedFeatures(d))
\* C1 witness: a dataset was committed in three batches, the last one partial
C1_Witness ==
    /\ variant \in {"app", "p1"}
    /\ \E d \in 1..Len(DatasetNames) :
        /\ DatasetCommitted(d)
        /\ Len(BatchesOf(d)) = 3
        /\ Len(BatchesOf(d)[3].batch) \in 1..(BATCH_SIZE - 1)

\* C2: in app.js, every progress report issued before the last addLayers
\* call of its dataset shows loaded < total.
C2_ProgressBelowTotal ==
    variant = "app" =>
        \A i \in DOMAIN log : \A j \in DOMAIN log :
            (/\ i < j
             /\ log[i].e = "progress"
             /\ log[j].e = "commit"
             /\ log[j].ds = log[i].ds) => log[i].x < log[i].y

\* features were committed at position j of the history
CommitAt(j) == log[j].e = "commit" /\ log[j].x > 0
\* a retrieval of the dataset after that of position j was issued at
\* position i of the history
NextFetchAt(i, j) == log[i].e = "fetch" /\ log[i].ds = log[j].ds + 1
\* the markers of the store that belong to dataset d
StoredOf(d) ==
    SelectSeq(markersCluster, LAMBDA m : m.feature.category = DatasetNames[d])

\* part_002: the markers of the store that belong to dataset d, and the
\* number of rows of d that its processing pass accepted
StoredOf_p2(d) ==
    SelectSeq(markersCluster, LAMBDA m : m.properties.category = DatasetNames[d])
Accepted_p2(d) ==
    IF \E i \in DOMAIN log :
            log[i].e = "response" /\ log[i].ds = d /\ log[i].x = 0 /\ log[i].y = 0
    THEN Len(SelectSeq(FileRows(csv[d]), rowAccepted_p2))
    ELSE 0

FilterSettled == variant = "app" /\ statsRuns.count >= 2 /\ rafQueue = << >>

\* C4: in app.js, after handleFilterChange and its updateVisibility pass,
\* a marker whose neighborhood is 'N/A' and whose category and district are
\* in the active sets is visible, whatever neighborhoods are selected.
C4_SentinelVisible ==
    FilterSettled =>
        \A i \in DOMAIN markersCluster :
            (/\ markersCluster[i].feature.neighborhood = "N/A"
             /\ markersCluster[i].feature.category \in activeFilters.categories
             /\ markersCluster[i].feature.district \in activeFilters.districts)
                => markersCluster[i].opacity = 1

\* C5: in app.js, when the first change after initFilters deselects one
\* category, the visibility predicate is false for the features of that
\* category and true for all the others.
C5_DeselectCategory ==
    (/\ variant = "app"
     /\ statsRuns.count = 2
     /\ checked.districts = boxes.districts
     /\ checked.neighborhoods = boxes.neighborhoods
     /\ Cardinality(boxes.categories \ checked.categories) = 1) =>
        \A i \in DOMAIN markersCluster :
            isVisible(activeFilters, markersCluster[i].feature)
                <=> markersCluster[i].feature.category \in checked.categories

\* every marker with the opacity the visibility predicate gives it
Settled(markers, af) ==
    [i \in DOMAIN markers |->
        [markers[i] EXCEPT !.opacity = IF isVisible(af, markers[i].feature) THEN 1 ELSE 0]]

\* C6: in app.js, the snapshot produced by a run of handleFilterChange
\* counts exactly the markers whose feature satisfies the visibility
\* predicate under the Filter State just installed.
C6_SnapshotMatchesFilter ==
    (variant = "app" /\ statsRuns.count >= 2 /\ ~changed) =>
        stats = updateStatistics(Settled(markersCluster, activeFilters))

RECURSIVE SumOver(_, _)
SumOver(f, S) ==
    IF S = {} THEN 0
    ELSE LET x == CHOOSE x \in S : TRUE
         IN  f[x] + SumOver(f, S \ {x})
Sum(f) == SumOver(f, DOMAIN f)

VisibleOf(d, c) ==
    {i \in DOMAIN markersCluster :
        /\ markersCluster[i].opacity = 1
        /\ markersCluster[i].feature.district \in d
        /\ markersCluster[i].feature.category = c}
AllDistricts == {markersCluster[i].feature.district : i \in DOMAIN markersCluster}

\* C8: in part_001, after updateStatistics, stats.districts[d][c] is the
\* number of visible markers of district d and category c,
\* stats.districts[d].total is the sum of stats.districts[d][c] over the
\* categories, and stats.totals[c] is the number of visible markers of c.
C8_NestedCounts ==
    (variant = "p1" /\ statsRuns.count > 0 /\ ~changed) =>
        /\ \A c \in Range(DatasetNames) :
            stats.totals[c] = Cardinality(VisibleOf(AllDistricts, c))
        /\ \A d \in DOMAIN stats.districts :
            /\ stats.districts[d].total = Sum(stats.districts[d].counts)
            /\ \A c \in Range(DatasetNames) :
                stats.districts[d].counts[c] = Cardinality(VisibleOf({d}, c))

\* the bounding box of Madrid, in hundredths of a degree
InBox(lng, lat) == lng >= -435 /\ lng <= -310 /\ lat >= 4015 /\ lat <= 4065

\* C9: in app.js and part_002, every feature committed to the marker store
\* lies in the box, longitude in [-4.35, -3.10], latitude in [40.15, 40.65].
C9_CommittedInBox ==
    /\ variant = "app" =>
        \A i \in DOMAIN markersCluster :
            InBox(markersCluster[i].feature.coordinates[1],
                  markersCluster[i].feature.coordinates[2])
    /\ variant = "p2" =>
        \A i \in DOMAIN markersCache :
            InBox(markersCache[i].latlng[2], markersCache[i].latlng[1])

\* C10: in app.js and part_002, once the retrieval of a dataset has failed
\* (rejected, or a response that is not OK), the load is aborted: no later
\* fetch, commit, initFilters or statistics pass, and showError is called.
C10_FailureAborts ==
    variant \in {"app", "p2"} =>
        \A i \in DOMAIN log :
            (log[i].e = "response" /\ log[i].ds >= 1 /\ log[i].x # 0) =>
                /\ pc = "failed"
                /\ \E j \in DOMAIN log : j > i /\ log[j].e = "error"
                /\ \A j \in DOMAIN log :
                    j > i => log[j].e \notin {"fetch", "commit", "initFilters",
                                              "statistics", "hide"}

\* part_002: the markers handed to the store whose district is 'Unknown'
UnknownCommitted ==
    Len(SelectSeq(Flatten(commits), LAMBDA m : m.properties.district = "Unknown"))
\* part_002: every retrieval of the run so far settled OK
AllOk == \A i \in DOMAIN log : log[i].e = "response" => log[i].x = 0
\* part_002: the processing pass has committed dataset d
Processed_p2(d) == \E i \in DOMAIN log : log[i].e = "commit" /\ log[i].ds = d
\* part_002: the rows that the processing pass parsed for dataset d
Parsed_p2(d) ==
    IF ~Processed_p2(d) THEN 0
    ELSE IF \E i \in DOMAIN log :
                log[i].e = "response" /\ log[i].ds = d /\ log[i].x = 0 /\ log[i].y = 0
         THEN csv[d].n
         ELSE 0
\* the summaries of skipped rows that showError received
Summaries == {i \in DOMAIN log : log[i].e = "error" /\ log[i].x = InvalidRows}
\* part_002: one feature per accepted row and one rejection per other row,
\* over all the rows parsed so far; at the end of the load one summary
\* carrying invalidRows when there are rejections, none otherwise
RowAccounting ==
    /\ rowCounts.processedRows + rowCounts.invalidRows
            = Parsed_p2(1) + Parsed_p2(2) + Parsed_p2(3)
    /\ Len(Flatten(commits)) = rowCounts.processedRows
    /\ \A d \in 1..Len(DatasetNames) :
            Processed_p2(d) => Len(Flatten(BatchesOf(d))) = Accepted_p2(d)
    /\ statsRuns.count <= 1 => Len(markersCluster) = rowCounts.processedRows
    /\ pc = "done" =>
            /\ \A d \in 1..Len(DatasetNames) : Processed_p2(d)
            /\ Cardinality(Summaries) = IF rowCounts.invalidRows > 0 THEN 1 ELSE 0
            /\ \A i \in Summaries : log[i].y = rowCounts.invalidRows
    /\ pc # "done" => Summaries = {}
\* the load of ScenarioLoad ended: the features handed to the marker store,
\* those of district 'Unknown', and the count reported
ScenarioGives(stored, unknown, reported) ==
    (pc = "done" /\ csv = ScenarioLoad /\ AllOk) =>
        /\ Len(Flatten(commits)) = stored
        /\ UnknownCommitted = unknown
        /\ \E i \in Summaries : log[i].y = reported

\* C11 as stated: in part_002 loadData every parsed row is committed as one
\* feature or counted as one rejection, never both, rejections stop
\* nothing, processedRows + invalidRows is the number of rows parsed, the
\* store holds processedRows features, one summary carries invalidRows iff
\* invalidRows > 0; 100+50+30 rows with 5 out of range and 3 unresolvable
\* district names give 172 features, 3 of district 'Unknown', 5 reported.
C11_Scenario172 ==
    variant = "p2" => (RowAccounting /\ ScenarioGives(172, 3, 5))
\* C11 amended: the same, the scenario giving 175 features (the 3 rows with
\* an unresolvable district name are committed with district 'Unknown').
C11_RowAccounting ==
    variant = "p2" => (RowAccounting /\ ScenarioGives(175, 3, 5))
\* C11 witness: the scenario load ended with rejections and 'Unknown' rows
C11_Witness ==
    /\ variant = "p2" /\ pc = "done" /\ csv = ScenarioLoad /\ AllOk
    /\ rowCounts.invalidRows = 5
    /\ rowCounts.processedRows = 175

\* part_002: the coordinates of the row are numbers inside the region
GoodCoordinates(row) ==
    validateCoordinates(parseFloat(row.Longitude), parseFloat(row.Latitude))
\* part_002: the rows of all three files
AllRows == FileRows(csv[1]) \o FileRows(csv[2]) \o FileRows(csv[3])

\* C12: in part_002, a row with well-formed in-region coordinates whose
\* district name is empty, missing, not a string or unresolvable is
\* committed with district 'Unknown' and is not counted in invalidRows.
C12_UnresolvedCommitted ==
    (variant = "p2" /\ pc = "done" /\ AllOk) =>
        /\ rowCounts.invalidRows
                = Len(SelectSeq(AllRows, LAMBDA r : ~GoodCoordinates(r)))
        /\ UnknownCommitted
                = Len(SelectSeq(AllRows, LAMBDA r :
                        /\ GoodCoordinates(r)
                        /\ normalizeDistrict(OrElse(r.district, ""), madridDistricts)
                                = "Unknown"))

\* C13: normalizeDistrict of part_002, for any argument (a string, also an
\* empty, blank or nonsense one, null, a number) and any loaded vocabulary,
\* returns the sentinel 'Unknown' or a name of the vocabulary (one of the
\* names in madridDistricts), never another value.
C13_NormalizerTotal ==
    pc = "normalized" =>
        districtResult \in {"Unknown"} \cup Range(madridDistricts)

\* a string without its letter case, diacritics, hyphens and surrounding or
\* repeated white space
Fold(chars) ==
    Trim(CollapseSpaces(hyphensToSpaces(withoutMarks(toLowerCase(chars)))))
\* two strings that differ in nothing else
SameSpelling(a, b) ==
    IsString(a) /\ IsString(b) /\ Fold(Text[a]) = Fold(Text[b])

\* C14: normalizeDistrict of part_002 gives the same result for any two
\* arguments that differ only in letter case, diacritics, hyphen versus
\* space, or surrounding/repeated white space; 'CHAMBERI' and 'Chamberí'
\* both give 'Chamberí'; an argument that hits the alias table gets the
\* alias, whatever the containment match over the vocabulary would give.
C14_SpellingInsensitive ==
    pc = "normalized" =>
        /\ \A other \in DistrictInputs :
                SameSpelling(districtInput, other) =>
                    normalizeDistrict(other, madridDistricts) = districtResult
        /\ districtInput \in {"CHAMBERI", "Chamberí"} => districtResult = "Chamberí"
        /\ IsString(districtInput) =>
                \A k \in DOMAIN districtVariants :
                    Fold(Text[districtInput]) = districtVariants[k].key =>
                        districtResult = districtVariants[k].name

\* a coordinate field with its decimal comma written as a period
withPeriod(value) ==
    IF value.t = "str" THEN Str(ReplaceComma(value.s)) ELSE value
\* the rows of file d with the coordinates written with periods
PeriodRows(d) ==
    [k \in 1..csv[d].n |->
        [FileRows(csv[d])[k] EXCEPT !.Longitude = withPeriod(@),
                                    !.Latitude = withPeriod(@)]]
\* the features the row loop of the running script makes of rows
FeaturesOf(rows, d) ==
    IF variant = "app" THEN rowLoopFeatures(rows, DatasetNames[d])
    ELSE rowLoopFeatures_p1(rows, DatasetNames[d])

\* C15: in app.js and part_001, a coordinate given as a string with a
\* decimal comma ('-3,70', '40,42') is parsed to the number the same digits
\* give with a period, and a row with a value that is no number after the
\* substitution is rejected: the features committed for a file are those
\* of the same file written with periods.
C15_CommaAsPeriod ==
    variant \in {"app", "p1"} =>
        \A d \in 1..Len(DatasetNames) :
            DatasetCommitted(d) =>
                Flatten(BatchesOf(d)) = FeaturesOf(PeriodRows(d), d)

\* the positions of the history at which the loader seeded the filters, and
\* at which it ran its statistics pass
Seedings == {i \in DOMAIN log : log[i].e = "initFilters"}
LoaderPasses == {i \in DOMAIN log : log[i].e = "statistics" /\ log[i].ds >= 1}
\* before position i of the history the three datasets were fetched, and
\* nothing is fetched or committed after it
AfterTheLoad(i) ==
    /\ \A d \in 1..Len(DatasetNames) :
            \E k \in 1..(i - 1) :
                log[k].e = "response" /\ log[k].ds = d /\ log[k].x = 0
    /\ \A k \in (i + 1)..Len(log) : log[k].e \notin {"fetch", "commit"}

\* C16: in app.js loadData, once the three datasets are fetched and all
\* their batches committed, the loader runs initFilters and then
\* updateStatistics, each exactly once and in that order, and the load is
\* completed (overlay hidden, no error); neither runs before the last batch
\* of the third dataset is committed.
C16_SeedingAfterLoad ==
    variant = "app" =>
        /\ pc = "done" =>
                /\ Cardinality(Seedings) = 1
                /\ Cardinality(LoaderPasses) = 1
                /\ overlayHidden
                /\ \A i \in DOMAIN log : log[i].e # "error"
        /\ pc # "done" => (Seedings = {} /\ LoaderPasses = {} /\ ~overlayHidden)
        /\ \A i \in Seedings : \A j \in LoaderPasses : i < j
        /\ \A i \in Seedings \cup LoaderPasses :
                /\ AfterTheLoad(i)
                /\ \A d \in 1..Len(DatasetNames) :
                        Flatten(BatchesOf(d)) = AcceptedFeatures(d)

\* the features of the markers of the store
LoadedFeatures == [i \in DOMAIN markersCluster |-> markersCluster[i].feature]

\* C17: when a load completes, initFilters (app.js and part_001) leaves the
\* Filter State 'all selected': activeFilters.categories, .districts and
\* .neighborhoods are the sets of values the loaded features carry, and
\* until the first change of a checkbox the visibility predicate is true
\* for every loaded feature.
C17_AllSelected ==
    (variant \in {"app", "p1"} /\ pc = "done" /\ statsRuns.count = 1) =>
        /\ activeFilters = facetValues(LoadedFeatures)
        /\ \A i \in DOMAIN markersCluster :
                isVisible(activeFilters, markersCluster[i].feature)

\* the load of app.js is under way, has completed, has failed
LoadStarted == variant = "app" /\ pc # "init"
LoadCompleted ==
    /\ pc = "done"
    /\ \A d \in 1..Len(DatasetNames) : DatasetCommitted(d)
    /\ Seedings # {}
    /\ overlayHidden
LoadGaveUp == pc = "failed" /\ \E i \in DOMAIN log : log[i].e = "error"

\* C18: in app.js, once loadData has started it always ends: provided every
\* fetch settles and every batch timer fires, the load reaches the completed
\* state (the three datasets committed, the filters seeded) or the failed
\* state (an error reported), whatever the user does in between.
C18_LoadEnds == LoadStarted ~> (LoadCompleted \/ LoadGaveUp)

\* C18 witness: a load of app.js that committed a batch of markers for each
\* of two datasets, waiting for the timer after each, has completed.
C18_Witness ==
    /\ variant = "app"
    /\ LoadCompleted
    /\ Cardinality({d \in 1..Len(DatasetNames) : Len(BatchesOf(d)) >= 1}) >= 2

\* the loader of app.js waits for the timer of the first batch of a dataset:
\* the step it has just taken began when response.text() settled
AfterFirstBatch == variant = "app" /\ pc = "timer" /\ processed <= BATCH_SIZE

\* C19: in app.js loadData the loader suspends only at the awaits of the
\* fetch, of the response text and of the timer after a batch, and between
\* two consecutive suspension points it handles at most CONFIG.BATCH_SIZE
\* rows or features: no batch is larger, and the step from the response text
\* to the first timer, which parses loadingState.total rows and runs the
\* row loop over them, handles no more than BATCH_SIZE rows.
C19_ChunkedSteps ==
    variant = "app" =>
        /\ pc \in {"init", "fetch", "text", "timer", "done", "failed"}
        /\ \A j \in DOMAIN log : log[j].e = "commit" => log[j].x <= BATCH_SIZE
        /\ AfterFirstBatch => loadingState.total <= BATCH_SIZE

\* the attributes of a feature that hold a value of the row or a sentinel
FilledAttributes == {"district", "type", "id", "address", "neighborhood"}

\* C20: every feature built by createFeature of app.js has its attributes
\* filled: outside Streetlights neighborhood and address are 'N/A', and
\* district, type, id, address and neighborhood are never empty or null, a
\* value the row lacks being replaced by 'Unknown' or 'N/A'.
C20_AttributesFilled ==
    variant = "app" =>
        \A i \in DOMAIN markersCluster :
            LET f == markersCluster[i].feature
            IN  /\ f.category # "Streetlights" =>
                        (f.neighborhood = "N/A" /\ f.address = "N/A")
                /\ \A a \in FilledAttributes : f[a] \notin {Null, ""}

\* part_002: the markers of a sequence are pairwise different objects
Distinct(markers) ==
    \A i, j \in DOMAIN markers : markers[i].id = markers[j].id => i = j

\* C21: in part_002 loadData a row is accepted or discarded as a whole:
\* until a checkbox changes, every row counted in processedRows has exactly
\* one marker, which is in markersCache and in markersCluster, a rejected
\* row has a marker in neither, and markersCache and the committed markers
\* both number processedRows.
C21_AtomicRows ==
    (variant = "p2" /\ statsRuns.count <= 1) =>
        /\ Len(markersCache) = rowCounts.processedRows
        /\ Len(markersCluster) = rowCounts.processedRows
        /\ markersCache = markersCluster
        /\ markersCluster = Flatten(commits)
        /\ Distinct(markersCluster)
        /\ \A d \in 1..Len(DatasetNames) :
                Processed_p2(d) => Len(Flatten(BatchesOf(d))) = Accepted_p2(d)

\* the updateVisibility/updateStatistics passes that filter changes started
FilterPasses == {i \in DOMAIN log : log[i].e = "statistics" /\ log[i].ds = 0}

\* C22: in app.js filter handling is debounced: the calls of
\* handleFilterChange of a burst (each less than 200 ms after the one
\* before, as the changes of SpecChanges are) lead to one rebuild of the
\* Filter State and one updateVisibility/updateStatistics pass, never to a
\* pass per call.
C22_OnePassPerBurst ==
    (variant = "app" /\ toggles < MaxChanges) => Cardinality(FilterPasses) <= 1

\* app.js: the opacity of every marker is what the visibility predicate
\* gives for its feature under the Filter State af
OpacitiesFollow(af) ==
    \A i \in DOMAIN markersCluster :
        (markersCluster[i].opacity = 1) <=> isVisible(af, markersCluster[i].feature)

\* C23: in app.js, for any sequence of filter changes, also when a change
\* starts a pass of updateVisibility while chunks of earlier passes are
\* pending, every pass ends and, once none is pending, the opacity of
\* every marker is 1 exactly when its feature satisfies the visibility
\* predicate under the final Filter State.
C23_PassesSettle ==
    (variant = "app" /\ toggles < MaxChanges /\ rafQueue = << >>) =>
        /\ activeFilters = checked
        /\ OpacitiesFollow(activeFilters)

\* app.js: every checkbox is checked again after handleFilterChange ran and
\* its passes ended
AllCheckedAgain ==
    /\ variant = "app" /\ pc = "done"
    /\ toggles < MaxChanges
    /\ checked = boxes
    /\ rafQueue = << >>

\* C24: in app.js, deselecting a facet value and selecting it again (two
\* runs of handleFilterChange) restores what initFilters seeded: the three
\* active sets equal the seeded sets, the values the loaded features
\* carry, and every loaded feature is visible.
C24_RoundTrip ==
    AllCheckedAgain =>
        /\ activeFilters = facetValues(LoadedFeatures)
        /\ \A i \in DOMAIN markersCluster :
                /\ isVisible(activeFilters, markersCluster[i].feature)
                /\ markersCluster[i].opacity = 1

\* part_002: the markers of the cluster, as hasLayer tells them apart
InCluster == {markersCluster[i].id : i \in DOMAIN markersCluster}

\* part_002: applyFilters has run and every checkbox of a category and of a
\* district is checked
AppliedAllChecked ==
    /\ variant = "p2" /\ pc = "done"
    /\ toggles < MaxChanges
    /\ checked = boxes

\* C25: in part_002, after a call of applyFilters made while every category
\* checkbox and every district checkbox is checked, every loaded feature
\* is visible: each marker of markersCache is in markersCluster and is
\* counted by updateStatistics, whatever its district, 'Unknown' included.
C25_AllCheckedAllVisible ==
    AppliedAllChecked =>
        /\ \A i \in DOMAIN markersCache : markersCache[i].id \in InCluster
        /\ stats.total = Len(markersCache)

\* app.js: the last batch of the current dataset has been committed
LastBatchCommitted ==
    /\ variant = "app" /\ pc = "timer"
    /\ processed = Len(features)

\* C26: in app.js, at every progress report of a load
\* 0 <= loadingState.loaded <= loadingState.total, so that the percentage
\* shown never exceeds 100, and after the last batch of a dataset
\* loadingState.loaded is the number of features committed for it.
C26_ProgressBounded ==
    variant = "app" =>
        /\ \A i \in DOMAIN log :
                log[i].e = "progress" => (0 <= log[i].x /\ log[i].x <= log[i].y)
        /\ LastBatchCommitted => loadingState.loaded = Len(Flatten(BatchesOf(ds)))

\* the positions of the history at which showLoadingProgress was called
PercentAt == {i \in DOMAIN log : log[i].e = "percent"}
\* 100 %, in tenths of a percent
FullBar == 1000

\* C27: in part_002, the percentages passed to showLoadingProgress during
\* one run of initMap, those of loadData included, never decrease, stay
\* within 0 and 100, and 100 is reported only after loadData, initFilters
\* and updateStatistics have completed.
C27_PercentagesRise ==
    variant = "p2" =>
        /\ \A i, j \in PercentAt : i < j => log[i].x <= log[j].x
        /\ \A i \in PercentAt : 0 <= log[i].x /\ log[i].x <= FullBar
        /\ \A i \in PercentAt :
                log[i].x = FullBar =>
                    \E k \in 1..(i - 1) : log[k].e = "statistics" /\ log[k].ds >= 1

\* the load has ended, completed or failed: the loader takes no further step
LoadEnded == pc \in {"done", "failed"}

\* C28: every outcome of a load hides the loading overlay: in app.js
\* loadData and in part_002 initMap, when all datasets load and when a load
\* fails, '.loading-overlay' gets the class 'hidden'.  Nothing but the
\* loader hides the overlay, so it is hidden when the load has ended.
C28_OverlayHidden ==
    (variant \in {"app", "p2"} /\ LoadEnded) => overlayHidden

\* normalizeDistrict applied to a result of normalizeDistrict: a result
\* that is no string (a member the alias table inherits) gives 'Unknown'
normalizedAgain(result, vocabulary) ==
    IF result \in DOMAIN Text THEN normalizeDistrict(result, vocabulary)
    ELSE "Unknown"

\* C29: every canonical name of the vocabulary is a fixed point of
\* normalizeDistrict of part_002: normalizeDistrict(d) = d for each of the
\* 21 district names d in madridDistricts, the hyphenated ones included,
\* hence normalizing a result other than 'Unknown' again changes nothing.
C29_CanonicalFixedPoints ==
    (pc = "normalized" /\ madridDistricts = MadridDistrictNames) =>
        /\ districtInput \in Range(madridDistricts) => districtResult = districtInput
        /\ districtResult # "Unknown" =>
                normalizedAgain(districtResult, madridDistricts) = districtResult

\* C30: normalizeDistrict of part_002 returns 'Unknown' for every argument
\* whose cleaned form is the empty string (a string of white space, '-',
\* 'aravaca'): an argument without district text is never resolved to a
\* district by the containment match.
C30_EmptyIsUnknown ==
    (/\ pc = "normalized"
     /\ IsString(districtInput)
     /\ cleanName(Text[districtInput]) = << >>) => districtResult = "Unknown"

====
